---- MODULE Spec2Model ----
(***************************************************************************)
(* A model of data_loading.py: load_data (directory of tab-separated files *)
(* -> one table), downcast (in-place narrowing of numeric column types)    *)
(* and get_downcast_type (the type-selection helper).                      *)
(*                                                                         *)
(* Numbers keep their real widths.  TLC's integers are 32 bits wide, so a  *)
(* stored integer is the sequence of its bytes (two's complement, most     *)
(* significant byte first) and a floating-point value is a sign, the       *)
(* exponent of its leading bit and the sequence of its significand bits.   *)
(***************************************************************************)
EXTENDS Integers, Sequences, FiniteSets, TLC

(***************************************************************************)
(* Bounds of the model.                                                    *)
(***************************************************************************)
MaxCols == 2
MaxRows == 2
MaxCalls == 2
MaxFiles == 2

Rep(x, n) == [j \in 1..n |-> x]

Range(s) == {s[j] : j \in 1..Len(s)}

(***************************************************************************)
(* Storage types (numpy dtypes): kind "i" signed integer, "u" unsigned     *)
(* integer, "f" floating point, "b" boolean, "O" object; size in bytes.    *)
(***************************************************************************)
DType(kind, size) == [kind |-> kind, size |-> size]

int8 == DType("i", 1)
int16 == DType("i", 2)
int32 == DType("i", 4)
int64 == DType("i", 8)
uint8 == DType("u", 1)
uint16 == DType("u", 2)
uint32 == DType("u", 4)
uint64 == DType("u", 8)
float16 == DType("f", 2)
float32 == DType("f", 4)
float64 == DType("f", 8)
bool_ == DType("b", 1)
object_ == DType("O", 8)

(***************************************************************************)
(* Integers.  A Python int / numpy integer scalar is held as WideLen bytes *)
(* of two's complement, which holds every int64 and every uint64 value.    *)
(***************************************************************************)
WideLen == 9

Wide(bytes, signed) ==
    LET fill == IF signed /\ bytes[1] >= 128 THEN 255 ELSE 0
    IN  Rep(fill, WideLen - Len(bytes)) \o bytes

\* Lexicographic order on equally long sequences of naturals.
RECURSIVE LexLt(_, _)
LexLt(a, b) ==
    IF a = <<>> THEN FALSE
    ELSE IF a[1] # b[1] THEN a[1] < b[1]
    ELSE LexLt(Tail(a), Tail(b))

\* Two's complement order: flipping the sign bit makes it the unsigned order.
Flip(w) == [w EXCEPT ![1] = (w[1] + 128) % 256]

IntLt(a, b) == LexLt(Flip(a), Flip(b))

IntLeq(a, b) == a = b \/ IntLt(a, b)

\* The low `size` bytes of a wide value: what a C cast to a `size`-byte
\* integer keeps.
Narrow(w, size) == SubSeq(w, WideLen - size + 1, WideLen)

(***************************************************************************)
(* Floating point.  A value is [k, neg, exp, bits]: k is "nan", "inf",     *)
(* "zero" or "fin"; a "fin" value is (-1)^neg * 1.b2b3... * 2^exp where    *)
(* bits = <<1, b2, b3, ...>> ends in a 1 (no trailing zeros).              *)
(***************************************************************************)
NaN == [k |-> "nan", neg |-> FALSE, exp |-> 0, bits |-> <<>>]
Inf(neg) == [k |-> "inf", neg |-> neg, exp |-> 0, bits |-> <<>>]
Zero(neg) == [k |-> "zero", neg |-> neg, exp |-> 0, bits |-> <<>>]
Fin(neg, exp, bits) == [k |-> "fin", neg |-> neg, exp |-> exp, bits |-> bits]

Neg(x) == [x EXCEPT !.neg = ~x.neg]

\* IEEE 754 binary16, binary32, binary64: significand bits (with the leading
\* one) and largest exponent; the smallest normal exponent is 1 - emax.
Precision(size) == CASE size = 2 -> 11 [] size = 4 -> 24 [] size = 8 -> 53
EMax(size) == CASE size = 2 -> 15 [] size = 4 -> 127 [] size = 8 -> 1023
EMin(size) == 1 - EMax(size)

RECURSIVE StripZeros(_)
StripZeros(bits) ==
    IF bits # <<>> /\ bits[Len(bits)] = 0
    THEN StripZeros(SubSeq(bits, 1, Len(bits) - 1))
    ELSE bits

\* bits + 1 on a fixed-length bit string; the carry out is dropped (the
\* caller sees all zeros exactly when the string was all ones).
RECURSIVE Incr(_)
Incr(bits) ==
    IF bits = <<>> THEN <<>>
    ELSE IF bits[Len(bits)] = 0 THEN SubSeq(bits, 1, Len(bits) - 1) \o <<1>>
    ELSE Incr(SubSeq(bits, 1, Len(bits) - 1)) \o <<0>>

\* Round a finite non-zero value to the format of `size` bytes: round to
\* nearest, ties to even, with gradual underflow and overflow to infinity.
RoundFin(x, size) ==
    LET p    == Precision(size)
        keep == IF x.exp >= EMin(size) THEN p ELSE p - (EMin(size) - x.exp)
        n    == Len(x.bits)
    IN  IF keep < 0 THEN Zero(x.neg)
        ELSE IF n <= keep THEN x
        ELSE
          LET head   == SubSeq(x.bits, 1, keep)
              half   == x.bits[keep + 1]
              sticky == n > keep + 1
              odd    == keep > 0 /\ head[keep] = 1
              up     == half = 1 /\ (sticky \/ odd)
              inc    == Incr(head)
              carry  == up /\ (\A j \in 1..keep : head[j] = 1)
              bits   == IF ~up THEN StripZeros(head)
                        ELSE IF carry THEN <<1>>
                        ELSE StripZeros(inc)
              exp    == IF carry THEN x.exp + 1 ELSE x.exp
          IN  IF bits = <<>> THEN Zero(x.neg)
              ELSE IF exp > EMax(size) THEN Inf(x.neg)
              ELSE Fin(x.neg, exp, bits)

Round(x, size) == IF x.k = "fin" THEN RoundFin(x, size) ELSE x

\* Order of the magnitudes of two finite non-zero values.
MagLt(a, b) ==
    IF a.exp # b.exp THEN a.exp < b.exp
    ELSE LET n == IF Len(a.bits) > Len(b.bits) THEN Len(a.bits) ELSE Len(b.bits)
         IN  LexLt(a.bits \o Rep(0, n - Len(a.bits)),
                   b.bits \o Rep(0, n - Len(b.bits)))

\* IEEE order of two values that are not NaN; -0 = +0.
FloatLt(a, b) ==
    CASE a.k = "zero" /\ b.k = "zero" -> FALSE
      [] a.k = "zero" -> ~b.neg
      [] b.k = "zero" -> a.neg
      [] a.neg # b.neg -> a.neg
      [] a.k = "inf" -> a.neg /\ b.k # "inf"
      [] b.k = "inf" -> ~b.neg
      [] OTHER -> IF a.neg THEN MagLt(b, a) ELSE MagLt(a, b)

(***************************************************************************)
(* Scalars: what Series.min()/max(), np.iinfo and np.finfo hand out.  An   *)
(* integer scalar is tagged "int" and carries its wide bytes in `bits`; a  *)
(* floating scalar is a floating-point value as above.  Unbound marks a    *)
(* local variable that has not been assigned.                              *)
(***************************************************************************)
IntScalar(w) == [k |-> "int", neg |-> FALSE, exp |-> 0, bits |-> w]
Unbound == [k |-> "unbound", neg |-> FALSE, exp |-> 0, bits |-> <<>>]

IsSigned(dtype) == dtype.kind = "i"

\* The scalar a stored value of the given type stands for.
ValueOf(v, dtype) ==
    IF dtype.kind \in {"i", "u", "b"} THEN IntScalar(Wide(v, IsSigned(dtype)))
    ELSE v

\* a <= b as Python evaluates it on two scalars: any comparison with NaN is
\* False.
Leq(a, b) ==
    CASE a.k = "nan" \/ b.k = "nan" -> FALSE
      [] a.k = "int" /\ b.k = "int" -> IntLeq(a.bits, b.bits)
      [] a.k # "int" /\ b.k # "int" -> ~FloatLt(b, a)

\* np.iinfo(dtype).min/.max and np.finfo(dtype).min/.max.
TypeMax(dtype) ==
    CASE dtype.kind = "i" -> IntScalar(Wide(<<127>> \o Rep(255, dtype.size - 1), TRUE))
      [] dtype.kind = "u" -> IntScalar(Wide(Rep(255, dtype.size), FALSE))
      [] dtype.kind = "f" -> Fin(FALSE, EMax(dtype.size), Rep(1, Precision(dtype.size)))

TypeMin(dtype) ==
    CASE dtype.kind = "i" -> IntScalar(Wide(<<128>> \o Rep(0, dtype.size - 1), TRUE))
      [] dtype.kind = "u" -> IntScalar(Wide(Rep(0, dtype.size), FALSE))
      [] dtype.kind = "f" -> Neg(TypeMax(dtype))

(***************************************************************************)
(* get_downcast_type.  A dict is the sequence of its items in insertion    *)
(* order; sorted(type_map.items()) orders them by key (keys are unique).   *)
(***************************************************************************)
\* The integer catalog with an unsigned entry.
map_int_unsigned == << <<1, uint8>>, <<2, int16>>, <<4, int32>>, <<8, int64>> >>

map_int == << <<1, int8>>, <<2, int16>>, <<4, int32>>, <<8, int64>> >>
map_float == << <<2, float16>>, <<4, float32>>, <<8, float64>> >>

RECURSIVE SortedItems(_)
SortedItems(items) ==
    IF items = <<>> THEN <<>>
    ELSE LET m == CHOOSE j \in 1..Len(items) :
                    \A l \in 1..Len(items) : items[j][1] <= items[l][1]
         IN  <<items[m]>> \o
             SortedItems([j \in 1..(Len(items) - 1) |->
                            IF j < m THEN items[j] ELSE items[j + 1]])

\* The test with the upper bound forgotten.
RangeFitsMinOnly(dtype, c_min, c_max) == Leq(TypeMin(dtype), c_min)

\* The test with the bounds excluded.
RangeFitsStrict(dtype, c_min, c_max) ==
    /\ Leq(TypeMin(dtype), c_min) /\ ~Leq(c_min, TypeMin(dtype))
    /\ Leq(c_max, TypeMax(dtype)) /\ ~Leq(TypeMax(dtype), c_max)

\* The test of line 102 for one catalog entry.
RangeFits(dtype, c_min, c_max) ==
    Leq(TypeMin(dtype), c_min) /\ Leq(c_max, TypeMax(dtype))

Returned(dtype) == [ok |-> TRUE, dtype |-> dtype, range |-> <<>>]
ValueError(c_min, c_max) == [ok |-> FALSE, dtype |-> object_, range |-> <<c_min, c_max>>]

RECURSIVE FirstFit(_, _, _)
FirstFit(items, c_min, c_max) ==
    IF items = <<>> THEN ValueError(c_min, c_max)
    ELSE IF RangeFits(items[1][2], c_min, c_max) THEN Returned(items[1][2])
    ELSE FirstFit(Tail(items), c_min, c_max)

get_downcast_type(type_map, c_min, c_max) ==
    FirstFit(SortedItems(type_map), c_min, c_max)

(***************************************************************************)
(* Tables.  A table (DataFrame) is a sequence of columns with distinct     *)
(* names; a column (Series) is [name, dtype, vals], vals being the stored  *)
(* values in row order.                                                    *)
(***************************************************************************)
Column(name, dtype, vals) == [name |-> name, dtype |-> dtype, vals |-> vals]

is_numeric_dtype(col) == col.dtype.kind \in {"i", "u", "f", "b"}
is_integer_dtype(col) == col.dtype.kind \in {"i", "u"}
is_float_dtype(col) == col.dtype.kind = "f"

\* df[name]
GetItem(df, name) == df[CHOOSE j \in 1..Len(df) : df[j].name = name]

\* The assignment adding a column whatever the name.
SetItemAppend(df, name, col) == Append(df, [col EXCEPT !.name = name])

\* df[name] = col: replaces the column of that name where it stands, or
\* appends a new column.
SetItem(df, name, col) ==
    IF \E j \in 1..Len(df) : df[j].name = name
    THEN [j \in 1..Len(df) |->
            IF df[j].name = name THEN [col EXCEPT !.name = name] ELSE df[j]]
    ELSE Append(df, [col EXCEPT !.name = name])

\* Series.min() and Series.max(): missing values (NaN) are skipped; with no
\* value left the result is NaN.
Present(col) == {ValueOf(col.vals[j], col.dtype) : j \in 1..Len(col.vals)}
                    \ {NaN}

SeriesMin(col) ==
    IF Present(col) = {} THEN NaN
    ELSE CHOOSE m \in Present(col) : \A v \in Present(col) : Leq(m, v)

SeriesMax(col) ==
    IF Present(col) = {} THEN NaN
    ELSE CHOOSE m \in Present(col) : \A v \in Present(col) : Leq(v, m)

\* Series.astype(dtype) between numpy number types: a C cast of every
\* element.  Integer to integer keeps the low bytes (sign- or zero-extended
\* first); floating to floating rounds to the target format.
CastValue(v, from, to) ==
    IF to.kind \in {"i", "u"} THEN Narrow(Wide(v, IsSigned(from)), to.size)
    ELSE Round(v, to.size)

astype(col, dtype) ==
    Column(col.name, dtype,
           [j \in 1..Len(col.vals) |-> CastValue(col.vals[j], col.dtype, dtype)])

\* df.memory_usage().sum(), in bytes, without the index.
MemoryUsage(df) ==
    LET RECURSIVE Sum(_)
        Sum(j) == IF j = 0 THEN 0
                  ELSE df[j].dtype.size * Len(df[j].vals) + Sum(j - 1)
    IN  Sum(Len(df))

(***************************************************************************)
(* State.                                                                  *)
(*   op              which entry point the caller uses in this behaviour:  *)
(*                   "downcast", "select" (get_downcast_type) or "load"    *)
(*   pc              "idle" (no call active), "loop" (inside the loop of   *)
(*                   the call), "returned", "raised" (an exception reached *)
(*                   the caller)                                           *)
(*   verbose         the verbose argument                                  *)
(*   out             what has been printed                                 *)
(*   raised          the exception that reached the caller, or "none"      *)
(* downcast:                                                               *)
(*   df              the table argument, mutated in place                  *)
(*   i, cols, types, c_min, c_max, initial_memory, final_memory            *)
(*                   the locals (i counts from 1)                          *)
(*   calls           completed calls                                       *)
(*   hist            df before the first call and after every completed one*)
(* get_downcast_type: type_map, c_min, c_max are the arguments, result     *)
(*                   what the call produced                                *)
(* load_data:                                                              *)
(*   fs              the file system at data_path                          *)
(*   cvs_files, dataframes, data   the locals; pos is the position of the  *)
(*                   for loop in cvs_files                                 *)
(*   trace           the file-system operations performed so far           *)
(***************************************************************************)
VARIABLES op, pc, verbose, out, raised,
          df, i, cols, types, c_min, c_max, initial_memory, final_memory,
          calls, hist,
          type_map, result,
          fs, cvs_files, dataframes, pos, data, trace

dcVars == <<df, i, cols, types, initial_memory, final_memory, calls, hist>>
selVars == <<type_map, result>>
ldVars == <<fs, cvs_files, dataframes, pos, data, trace>>

vars == <<op, pc, verbose, out, raised, c_min, c_max, dcVars, selVars, ldVars>>

(***************************************************************************)
(* Sample inputs: for every storage type a list of values at and around    *)
(* the catalog boundaries; a sample column is a run of consecutive values  *)
(* of that list.                                                           *)
(***************************************************************************)
F1p5 == Fin(FALSE, 0, <<1, 1>>)
F2p5 == Fin(FALSE, 1, <<1, 0, 1>>)
\* 0.1 as a float64: 0x1.999999999999ap-4
F0p1 == Fin(FALSE, -4, <<1>> \o [j \in 1..48 |-> IF j % 4 \in {0, 1} THEN 1 ELSE 0]
                            \o <<1, 0, 1>>)
\* 65504 + 2^-20 and 65504 + 2^-8: just above the largest float16
FAbove16 == Fin(FALSE, 15, Rep(1, 11) \o Rep(0, 24) \o <<1>>)
FAbove16s == Fin(FALSE, 15, Rep(1, 11) \o Rep(0, 12) \o <<1>>)
F2049 == Fin(FALSE, 11, <<1>> \o Rep(0, 10) \o <<1>>)
\* 2^24 + 1
F16777217 == Fin(FALSE, 24, <<1>> \o Rep(0, 23) \o <<1>>)
FTiny == Fin(FALSE, -30, <<1>>)
FHuge == Fin(FALSE, 130, <<1>>)

SampleValues(dtype) ==
    CASE dtype = int8 -> << <<128>>, <<156>>, <<100>>, <<127>>, <<0>> >>
      [] dtype = uint8 -> << <<0>>, <<200>>, <<127>>, <<128>>, <<255>> >>
      [] dtype = int16 -> << <<128, 0>>, <<255, 127>>, <<255, 128>>, <<0, 127>>,
                             <<0, 128>>, <<127, 255>> >>
      [] dtype = uint16 -> << <<0, 0>>, <<0, 127>>, <<127, 255>>, <<128, 0>>,
                              <<255, 255>> >>
      [] dtype = int32 -> << <<128, 0, 0, 0>>, <<255, 255, 127, 255>>,
                             <<255, 255, 128, 0>>, <<0, 0, 0, 0>>,
                             <<0, 15, 66, 64>>, <<0, 0, 128, 0>>,
                             <<127, 255, 255, 255>> >>
      [] dtype = uint32 -> << <<0, 0, 0, 0>>, <<127, 255, 255, 255>>,
                              <<128, 0, 0, 0>>, <<255, 255, 255, 255>> >>
      [] dtype = int64 -> << <<128>> \o Rep(0, 7),
                             Rep(255, 4) \o <<127, 255, 255, 255>>,
                             Rep(255, 4) \o <<128, 0, 0, 0>>,
                             Rep(255, 7) \o <<156>>,
                             Rep(0, 7) \o <<100>>,
                             Rep(0, 8),
                             Rep(0, 5) \o <<15, 66, 64>>,
                             Rep(0, 4) \o <<127, 255, 255, 255>>,
                             Rep(0, 4) \o <<128, 0, 0, 0>>,
                             <<127>> \o Rep(255, 7) >>
      [] dtype = uint64 -> << Rep(0, 8), <<127>> \o Rep(255, 7),
                              <<128>> \o Rep(0, 7), Rep(255, 8) >>
      [] dtype = float16 -> <<F1p5, F2p5, TypeMax(float16), TypeMin(float16),
                              NaN, Inf(FALSE)>>
      [] dtype = float32 -> <<F1p5, F2049, TypeMax(float16), FAbove16s,
                              TypeMax(float32), NaN>>
      [] dtype = float64 -> <<F1p5, F2p5, F0p1, FAbove16, F16777217, FHuge,
                              TypeMax(float64), NaN, Inf(TRUE), FTiny,
                              Neg(F1p5)>>
      [] dtype = bool_ -> << <<0>>, <<1>> >>
      [] dtype = object_ -> <<"x", "y">>

SampleTypes == {int8, int16, int32, int64, uint8, uint16, uint32, uint64,
                float16, float32, float64, bool_, object_}

Window(vals, s, n) == [j \in 1..n |-> vals[((s + j - 2) % Len(vals)) + 1]]

SampleColumns(n) ==
    UNION {{Column("", dtype, Window(SampleValues(dtype), s, n)) :
              s \in 1..(IF n = 0 THEN 1 ELSE Len(SampleValues(dtype)))} :
           dtype \in SampleTypes}

\* The other columns of a sample table: one that is not numeric and one
\* that fits no candidate.
Fillers(n) ==
    {Column("", object_, Rep("x", n)),
     Column("", uint64, Rep(Rep(255, 8), n))}

ColumnNames == <<"a", "b", "c", "d", "e", "f">>

\* Tables of m columns and n rows whose column s is a sample column.
TablesOf(m, s, n) ==
    {[j \in 1..m |-> [(IF j = s THEN subj ELSE fill[j]) EXCEPT !.name = ColumnNames[j]]] :
        subj \in SampleColumns(n), fill \in [1..m -> Fillers(n)]}

SampleTables ==
    UNION {TablesOf(m, s, n) : m \in 1..MaxCols, s \in 1..MaxCols, n \in 0..MaxRows}

(***************************************************************************)
(* downcast(df, verbose)                                                   *)
(***************************************************************************)
Echo(line) == IF verbose THEN <<line>> ELSE <<>>

\* Lines 47-54: the entry of downcast.
DowncastCall ==
    /\ op = "downcast" /\ pc = "idle" /\ calls < MaxCalls
    /\ cols' = [j \in 1..Len(df) |-> df[j].name]
    /\ types' = [j \in 1..Len(df) |-> df[j].dtype]
    /\ initial_memory' = MemoryUsage(df)
    /\ final_memory' = 0
    /\ c_min' = Unbound /\ c_max' = Unbound
    /\ i' = 1
    /\ pc' = "loop"
    /\ UNCHANGED <<op, df, verbose, out, raised, calls, hist, selVars, ldVars>>

\* A handler that lets the exception go on to the caller.
HandlerReraises(v, name, t, lo, hi, e) == [out |-> <<>>, raised |-> "ValueError"]

\* Lines 67-71: the handler of the per-column try.  It prints only when
\* verbose; reading a local that was never assigned raises out of the
\* handler.
ExceptHandler(v, name, t, lo, hi, e) ==
    IF ~v THEN [out |-> <<>>, raised |-> "none"]
    ELSE IF lo = Unbound \/ hi = Unbound
    THEN [out |-> << <<"An error occurred when attempting to downcast", name, e>>,
                     <<"Data type before downcasting", t>> >>,
          raised |-> "UnboundLocalError"]
    ELSE [out |-> << <<"An error occurred when attempting to downcast", name, e>>,
                     <<"Data type before downcasting", t>>,
                     <<"Min and Max values in the column", lo, hi>> >>,
          raised |-> "none"]

\* Lines 58-71 for a column that is converted with the given catalog.
Convert(catalog) ==
    LET name == cols[i]
        col  == GetItem(df, name)
        lo   == SeriesMin(col)
        hi   == SeriesMax(col)
        r    == get_downcast_type(catalog, lo, hi)
        new  == SetItem(df, name, astype(col, r.dtype))
        h    == ExceptHandler(verbose, name, types[i], lo, hi, r)
    IN  /\ c_min' = lo /\ c_max' = hi
        /\ IF r.ok
           THEN /\ df' = new
                /\ out' = out \o Echo(<<"Downcasting", name, GetItem(new, name).dtype>>)
                /\ i' = i + 1
                /\ UNCHANGED <<pc, raised>>
           ELSE /\ df' = df
                /\ out' = out \o h.out
                /\ IF h.raised = "none"
                   THEN i' = i + 1 /\ UNCHANGED <<pc, raised>>
                   ELSE i' = i /\ pc' = "raised" /\ raised' = h.raised
        /\ UNCHANGED <<op, verbose, cols, types, initial_memory, final_memory,
                       calls, hist, selVars, ldVars>>

InLoop == op = "downcast" /\ pc = "loop" /\ i <= Len(types)

\* Lines 57, 61-62: an integer column.
DowncastInteger ==
    /\ InLoop
    /\ is_numeric_dtype(GetItem(df, cols[i]))
    /\ is_integer_dtype(GetItem(df, cols[i])) /\ ~is_float_dtype(GetItem(df, cols[i]))
    /\ Convert(map_int)

\* Lines 57, 63-64: a floating-point column.
DowncastFloat ==
    /\ InLoop
    /\ is_numeric_dtype(GetItem(df, cols[i]))
    /\ ~(is_integer_dtype(GetItem(df, cols[i])) /\ ~is_float_dtype(GetItem(df, cols[i])))
    /\ is_float_dtype(GetItem(df, cols[i]))
    /\ Convert(map_float)

\* Lines 57-66: a numeric column that is neither: min and max are taken and
\* nothing is converted.
DowncastOtherNumeric ==
    /\ InLoop
    /\ is_numeric_dtype(GetItem(df, cols[i]))
    /\ ~is_integer_dtype(GetItem(df, cols[i]))
    /\ ~is_float_dtype(GetItem(df, cols[i]))
    /\ c_min' = SeriesMin(GetItem(df, cols[i]))
    /\ c_max' = SeriesMax(GetItem(df, cols[i]))
    /\ out' = out \o Echo(<<"Downcasting", cols[i], GetItem(df, cols[i]).dtype>>)
    /\ i' = i + 1
    /\ UNCHANGED <<op, pc, df, verbose, cols, types, initial_memory,
                   final_memory, raised, calls, hist, selVars, ldVars>>

\* Lines 72-74: a column that is not numeric.
DowncastSkip ==
    /\ InLoop
    /\ ~is_numeric_dtype(GetItem(df, cols[i]))
    /\ out' = out \o Echo(<<"Skipping non-numeric column", cols[i],
                             GetItem(df, cols[i]).dtype>>)
    /\ i' = i + 1
    /\ UNCHANGED <<op, pc, df, verbose, cols, types, c_min, c_max,
                   initial_memory, final_memory, raised, calls, hist, selVars, ldVars>>

\* Lines 76-81: after the loop.  The percentage of line 81 is a float
\* division that cannot raise; the two totals stand for it.
DowncastReturn ==
    /\ op = "downcast" /\ pc = "loop" /\ i > Len(types)
    /\ final_memory' = MemoryUsage(df)
    /\ out' = out \o Echo(<<"Initial memory usage", initial_memory>>)
                  \o Echo(<<"Final memory usage", MemoryUsage(df)>>)
                  \o Echo(<<"Reduced memory usage by", initial_memory, MemoryUsage(df)>>)
    /\ pc' = "idle"
    /\ calls' = calls + 1
    /\ hist' = Append(hist, df)
    /\ UNCHANGED <<op, df, verbose, i, cols, types, c_min, c_max,
                   initial_memory, raised, selVars, ldVars>>

(***************************************************************************)
(* get_downcast_type called on its own.                                    *)
(***************************************************************************)
NoResult == [ok |-> FALSE, dtype |-> object_, range |-> <<>>]

\* Lines 100-106 as one call.
SelectCall ==
    /\ op = "select" /\ pc = "idle"
    /\ result' = get_downcast_type(type_map, c_min, c_max)
    /\ IF result'.ok
       THEN pc' = "returned" /\ UNCHANGED raised
       ELSE pc' = "raised" /\ raised' = "ValueError"
    /\ UNCHANGED <<op, verbose, out, c_min, c_max, type_map, dcVars, ldVars>>

\* Catalogs handed to get_downcast_type: downcast's two, the integer one
\* inserted in descending order, and a part of it.
SampleMaps ==
    {map_int, map_float,
     << <<8, int64>>, <<4, int32>>, <<2, int16>>, <<1, int8>> >>,
     << <<4, int32>>, <<2, int16>> >>}

IntTypes == {int8, int16, int32, int64, uint8, uint16, uint32, uint64}

SampleScalars(kind) ==
    IF kind = "f"
    THEN Range(SampleValues(float64)) \cup Range(SampleValues(float32))
            \cup Range(SampleValues(float16))
    ELSE {NaN} \cup UNION {{ValueOf(v, d) : v \in Range(SampleValues(d))} : d \in IntTypes}

(***************************************************************************)
(* load_data(data_path, verbose).  A file is the sequence of its tokens:   *)
(* "\t", "\n" and field texts.  A parsed table is [columns, index, rows].  *)
(***************************************************************************)
TAB == "\t"
NL == "\n"

\* The pieces of a token sequence between occurrences of sep.
RECURSIVE SplitOn(_, _)
SplitOn(text, sep) ==
    IF \A j \in 1..Len(text) : text[j] # sep THEN <<text>>
    ELSE LET c == CHOOSE j \in 1..Len(text) :
                    text[j] = sep /\ \A l \in 1..(j - 1) : text[l] # sep
         IN  <<SubSeq(text, 1, c - 1)>> \o SplitOn(SubSeq(text, c + 1, Len(text)), sep)

RECURSIVE DropEmpty(_)
DropEmpty(lines) ==
    IF lines = <<>> THEN <<>>
    ELSE IF lines[1] = <<>> THEN DropEmpty(Tail(lines))
    ELSE <<lines[1]>> \o DropEmpty(Tail(lines))

\* One field per piece between tabs (a field is one token, or empty).
Fields(line) ==
    LET parts == SplitOn(line, TAB)
    IN  [j \in 1..Len(parts) |-> IF parts[j] = <<>> THEN "" ELSE parts[j][1]]

RangeIndex(n) == [j \in 1..n |-> j - 1]

Table(columns, index, rows) == [columns |-> columns, index |-> index, rows |-> rows]
NoTable == Table(<<>>, <<>>, <<>>)

\* pd.read_csv(csv_file, delimiter='\t'): the first line is the header, blank
\* lines are skipped, every other line is a row; a file without any line has
\* no columns to parse.
read_csv(text) ==
    LET lines == DropEmpty(SplitOn(text, NL))
    IN  IF lines = <<>> THEN [ok |-> FALSE, err |-> "EmptyDataError", table |-> NoTable]
        ELSE [ok |-> TRUE, err |-> "none",
              table |-> Table(Fields(lines[1]), RangeIndex(Len(lines) - 1),
                              [j \in 1..(Len(lines) - 1) |-> Fields(lines[j + 1])])]

\* The columns of the tables in order of first appearance.
RECURSIVE UnionColumns(_, _)
UnionColumns(tables, seen) ==
    IF tables = <<>> THEN seen
    ELSE UnionColumns(Tail(tables),
                      seen \o SelectSeq(tables[1].columns,
                                        LAMBDA c : c \notin Range(seen)))

\* A row of table t laid out under the given columns; a column t lacks is
\* filled with a missing value.
Align(t, row, columns) ==
    [j \in 1..Len(columns) |->
        IF \E l \in 1..Len(t.columns) : t.columns[l] = columns[j]
        THEN row[CHOOSE l \in 1..Len(t.columns) : t.columns[l] = columns[j]]
        ELSE "NaN"]

RECURSIVE StackRows(_, _)
StackRows(tables, columns) ==
    IF tables = <<>> THEN <<>>
    ELSE [j \in 1..Len(tables[1].rows) |-> Align(tables[1], tables[1].rows[j], columns)]
            \o StackRows(Tail(tables), columns)

RECURSIVE StackIndex(_)
StackIndex(tables) ==
    IF tables = <<>> THEN <<>> ELSE tables[1].index \o StackIndex(Tail(tables))

\* pd.concat(objs, ignore_index=...): no table at all is an error.
pd_concat(tables, ignore_index) ==
    IF tables = <<>> THEN [ok |-> FALSE, err |-> "ValueError", table |-> NoTable]
    ELSE LET columns == UnionColumns(tables, <<>>)
             rows    == StackRows(tables, columns)
         IN  [ok |-> TRUE, err |-> "none",
              table |-> Table(columns,
                              IF ignore_index THEN RangeIndex(Len(rows))
                              ELSE StackIndex(tables),
                              rows)]

\* The concatenation that keeps every table's own row labels.
ConcatKeepIndex(tables) == pd_concat(tables, FALSE)

\* Line 28.
ConcatAll(tables) == pd_concat(tables, TRUE)

\* The check of line 16 left out.
AlwaysExists(dir) == TRUE

\* os.path.exists(data_path) and os.listdir(data_path).
os_path_exists(dir) == dir.exists

os_listdir(dir) ==
    IF dir.exists THEN [ok |-> TRUE, err |-> "none",
                        names |-> [j \in 1..Len(dir.entries) |-> dir.entries[j].name]]
    ELSE [ok |-> FALSE, err |-> "FileNotFoundError", names |-> <<>>]

FileText(dir, name) ==
    dir.entries[CHOOSE j \in 1..Len(dir.entries) : dir.entries[j].name = name].text

\* Lines 16-19: the assertion, the listing and the empty list.
LoadCall ==
    /\ op = "load" /\ pc = "idle"
    /\ IF ~os_path_exists(fs)
       THEN /\ trace' = trace \o << <<"exists">> >>
            /\ pc' = "raised" /\ raised' = "AssertionError: Data path not found"
            /\ UNCHANGED <<cvs_files, dataframes, pos>>
       ELSE /\ trace' = trace \o << <<"exists">>, <<"listdir">> >>
            /\ IF os_listdir(fs).ok
               THEN /\ cvs_files' = os_listdir(fs).names
                    /\ dataframes' = <<>>
                    /\ pos' = 1
                    /\ pc' = "loop"
                    /\ UNCHANGED raised
               ELSE /\ pc' = "raised" /\ raised' = os_listdir(fs).err
                    /\ UNCHANGED <<cvs_files, dataframes, pos>>
    /\ UNCHANGED <<op, verbose, out, c_min, c_max, fs, data, dcVars, selVars>>

\* Lines 21-26: one file.  A parse failure reaches the caller.
LoadFile ==
    /\ op = "load" /\ pc = "loop" /\ pos <= Len(cvs_files)
    /\ LET file   == cvs_files[pos]
           parsed == read_csv(FileText(fs, file))
       IN  /\ out' = out \o Echo(<<"Loading data from file", file>>)
           /\ trace' = Append(trace, <<"read", file>>)
           /\ IF parsed.ok
              THEN /\ dataframes' = Append(dataframes, parsed.table)
                   /\ pos' = pos + 1
                   /\ UNCHANGED <<pc, raised>>
              ELSE /\ pc' = "raised" /\ raised' = parsed.err
                   /\ UNCHANGED <<dataframes, pos>>
    /\ UNCHANGED <<op, verbose, c_min, c_max, fs, cvs_files, data, dcVars, selVars>>

\* Lines 28-33: the concatenation and the return.
LoadReturn ==
    /\ op = "load" /\ pc = "loop" /\ pos > Len(cvs_files)
    /\ LET r == ConcatAll(dataframes)
       IN  IF r.ok
           THEN /\ data' = r.table
                /\ out' = out \o Echo(<<"Successfully loaded data from files", Len(cvs_files)>>)
                /\ pc' = "returned"
                /\ UNCHANGED raised
           ELSE /\ pc' = "raised" /\ raised' = r.err
                /\ UNCHANGED <<data, out>>
    /\ UNCHANGED <<op, verbose, c_min, c_max, fs, cvs_files, dataframes, pos,
                   trace, dcVars, selVars>>

\* Sample files.  A well-formed file is rendered from a header and rows;
\* `header` and `rows` stay beside the text for the properties to refer to
\* and are read by no action.
RECURSIVE Join(_, _)
Join(pieces, sep) ==
    IF pieces = <<>> THEN <<>>
    ELSE IF Len(pieces) = 1 THEN pieces[1]
    ELSE pieces[1] \o <<sep>> \o Join(Tail(pieces), sep)

RenderLine(fields) == Join([j \in 1..Len(fields) |-> <<fields[j]>>], TAB)

Render(header, rows) ==
    Join(<<RenderLine(header)>> \o [j \in 1..Len(rows) |-> RenderLine(rows[j])], NL)
        \o <<NL>>

WellFormed(header, rows) ==
    [name |-> "", text |-> Render(header, rows), header |-> header, rows |-> rows,
     wellformed |-> TRUE]

SampleFiles ==
    {WellFormed(<<"u", "v">>, <<>>),
     WellFormed(<<"u", "v">>, << <<"1", "2">> >>),
     WellFormed(<<"u", "v">>, << <<"3", "4">>, <<"1", "2">> >>),
     WellFormed(<<"v", "w">>, << <<"5", "6">> >>),
     [name |-> "", text |-> <<>>, header |-> <<>>, rows |-> <<>>, wellformed |-> FALSE]}

FileNames == <<"f1", "f2", "f3", "f4">>

SampleDirs ==
    {[exists |-> FALSE, entries |-> <<>>]} \cup
    UNION {{[exists |-> TRUE,
             entries |-> [j \in 1..n |-> [files[j] EXCEPT !.name = FileNames[j]]]] :
              files \in [1..n -> SampleFiles]} : n \in 0..MaxFiles}

(***************************************************************************)
(* Initial states and the next-state relation.                             *)
(***************************************************************************)
IdleDowncast ==
    /\ i = 0 /\ cols = <<>> /\ types = <<>>
    /\ initial_memory = 0 /\ final_memory = 0
    /\ calls = 0

IdleSelect == result = NoResult

IdleLoad ==
    /\ cvs_files = <<>> /\ dataframes = <<>> /\ pos = 0
    /\ data = NoTable /\ trace = <<>>

InitDowncast ==
    /\ op = "downcast"
    /\ df \in SampleTables
    /\ verbose \in BOOLEAN
    /\ c_min = Unbound /\ c_max = Unbound
    /\ hist = <<df>>
    /\ type_map = <<>>
    /\ fs = [exists |-> FALSE, entries |-> <<>>]

InitSelect ==
    /\ op = "select"
    /\ type_map \in SampleMaps
    /\ c_min \in SampleScalars(type_map[1][2].kind)
    /\ c_max \in SampleScalars(type_map[1][2].kind)
    /\ verbose = FALSE
    /\ df = <<>> /\ hist = <<>>
    /\ fs = [exists |-> FALSE, entries |-> <<>>]

InitLoad ==
    /\ op = "load"
    /\ fs \in SampleDirs
    /\ verbose \in BOOLEAN
    /\ c_min = Unbound /\ c_max = Unbound
    /\ df = <<>> /\ hist = <<>>
    /\ type_map = <<>>

Init ==
    /\ pc = "idle" /\ out = <<>> /\ raised = "none"
    /\ IdleDowncast /\ IdleSelect /\ IdleLoad
    /\ (InitDowncast \/ InitSelect \/ InitLoad)

Next ==
    \/ DowncastCall
    \/ DowncastInteger
    \/ DowncastFloat
    \/ DowncastOtherNumeric
    \/ DowncastSkip
    \/ DowncastReturn
    \/ SelectCall
    \/ LoadCall
    \/ LoadFile
    \/ LoadReturn

Spec == Init /\ [][Next]_vars

(***************************************************************************)
(* Properties of downcast.                                                 *)
(***************************************************************************)
\* The calls of downcast that have returned: call k took hist[k] to
\* hist[k + 1].
Returns == 1..(Len(hist) - 1)

\* The call that returned last, when no call is active.
LastReturn == IF pc = "idle" /\ Len(hist) >= 2 THEN {Len(hist) - 1} ELSE {}

IntCatalog == {int8, int16, int32, int64}
FloatCatalog == {float16, float32, float64}

\* The closed range of values a storage type holds.
StorageMin(dtype) == IF dtype.kind = "b" THEN IntScalar(Rep(0, WideLen)) ELSE TypeMin(dtype)
StorageMax(dtype) ==
    IF dtype.kind = "b" THEN IntScalar(Rep(0, WideLen - 1) \o <<1>>) ELSE TypeMax(dtype)

Holds(dtype, lo, hi) == Leq(StorageMin(dtype), lo) /\ Leq(hi, StorageMax(dtype))

\* Two scalars are the same value (both missing, or equal numbers).
SameScalar(a, b) ==
    IF a.k = "nan" \/ b.k = "nan" THEN a.k = b.k ELSE Leq(a, b) /\ Leq(b, a)

IsFinite(a) == a.k \in {"int", "zero", "fin"}

\* The catalog downcast consults for a column, and whether some entry of it
\* holds the column's observed range.
CatalogOf(col) ==
    IF is_integer_dtype(col) THEN IntCatalog
    ELSE IF is_float_dtype(col) THEN FloatCatalog
    ELSE {}

Candidates(col) ==
    {d \in CatalogOf(col) : Holds(d, SeriesMin(col), SeriesMax(col))}

NoCandidate(col) == CatalogOf(col) # {} /\ Candidates(col) = {}

Narrowest(col) ==
    CHOOSE d \in Candidates(col) : \A e \in Candidates(col) : d.size <= e.size

\* C1: after downcast returns, no numeric column's storage type is wider than
\* the type it had before the call.
C1_WidthNeverGrows ==
    \A k \in Returns : \A j \in 1..Len(hist[k]) :
        is_numeric_dtype(hist[k][j]) =>
            hist[k + 1][j].dtype.size <= hist[k][j].dtype.size

\* C2: after downcast returns, min and max of every numeric column equal the
\* values they had before the call.
C2_MinMaxUnchanged ==
    \A k \in Returns : \A j \in 1..Len(hist[k]) :
        is_numeric_dtype(hist[k][j]) =>
            /\ SameScalar(SeriesMin(hist[k + 1][j]), SeriesMin(hist[k][j]))
            /\ SameScalar(SeriesMax(hist[k + 1][j]), SeriesMax(hist[k][j]))

\* C3 as claimed: after downcast returns, the range of every numeric column's
\* final storage type contains the column's observed [min, max] (a column
\* with no value present has no observed range).
C3_RangeContainsObserved ==
    \A k \in Returns : \A j \in 1..Len(hist[k]) :
        LET col == hist[k + 1][j]
        IN  is_numeric_dtype(col) /\ SeriesMin(col).k # "nan" =>
                Holds(col.dtype, SeriesMin(col), SeriesMax(col))

\* C3 as amended: after downcast returns, for every numeric column whose
\* observed min and max are finite (a value is present and none is an
\* infinity), the range of the final storage type contains the [min, max]
\* observed before the call and the [min, max] observed after it.
C3_RangeContainsFiniteObserved ==
    \A k \in LastReturn : \A j \in 1..Len(hist[k]) :
        LET old == hist[k][j]
            col == hist[k + 1][j]
        IN  /\ is_numeric_dtype(old)
            /\ IsFinite(SeriesMin(old)) /\ IsFinite(SeriesMax(old))
            => /\ Holds(col.dtype, SeriesMin(old), SeriesMax(old))
               /\ Holds(col.dtype, SeriesMin(col), SeriesMax(col))

\* A call has returned that took a floating-point column with finite values
\* past the 2-byte type to the 4-byte type.
C3_Witness ==
    \E k \in Returns : \E j \in 1..Len(hist[k]) :
        /\ hist[k][j].dtype = float64
        /\ IsFinite(SeriesMin(hist[k][j])) /\ IsFinite(SeriesMax(hist[k][j]))
        /\ hist[k + 1][j].dtype = float32

\* What downcast is to make of one column: the narrowest candidate of its
\* catalog when there is one, the column itself otherwise.
ExpectedColumn(col) ==
    IF Candidates(col) # {} THEN astype(col, Narrowest(col)) ELSE col

\* C4: when a column's range fits no candidate of its catalog, downcast
\* leaves that column as it was, deals with every other column as usual and
\* returns; no exception reaches the caller, verbose or not, whichever column
\* fails.
C4_NoCandidateIsSkipped ==
    /\ \/ raised = "none" /\ pc # "raised"
       \/ ~(op = "downcast" /\ \E j \in 1..Len(hist[1]) : NoCandidate(hist[1][j]))
    /\ \A k \in LastReturn :
          (\E j \in 1..Len(hist[k]) : NoCandidate(hist[k][j])) =>
              \A j \in 1..Len(hist[k]) : hist[k + 1][j] = ExpectedColumn(hist[k][j])

\* A verbose call has returned whose first column fitted no candidate and
\* whose second column was narrowed.
C4_Witness ==
    /\ verbose /\ Len(hist) >= 2 /\ Len(hist[1]) >= 2
    /\ NoCandidate(hist[1][1])
    /\ hist[2][1] = hist[1][1]
    /\ hist[2][2].dtype # hist[1][2].dtype

\* C5: running downcast twice leaves the column types and values that
\* running it once leaves.
C5_Idempotent ==
    \A k \in Returns : k >= 2 => hist[k + 1] = hist[k]

\* C6: downcast keeps the number, names and order of the columns and the
\* number of rows, and leaves every non-numeric column as it was.
C6_Frame ==
    op = "downcast" =>
        /\ Len(df) = Len(hist[1])
        /\ \A j \in 1..Len(df) :
              /\ df[j].name = hist[1][j].name
              /\ Len(df[j].vals) = Len(hist[1][j].vals)
              /\ ~is_numeric_dtype(hist[1][j]) => df[j] = hist[1][j]

\* A call has returned that narrowed a column of a table that also has a
\* non-numeric column, after the non-numeric one.
C6_Witness ==
    /\ Len(hist) >= 2 /\ Len(hist[1]) >= 2
    /\ ~is_numeric_dtype(hist[1][1]) /\ Len(hist[1][1].vals) >= 1
    /\ hist[2][2].dtype # hist[1][2].dtype

\* C10: an integer column ends with its original type or a signed integer
\* type of the catalog, a floating-point column with its original type or a
\* floating type of the catalog, any other column with its original type.
C10_KindPreserved ==
    op = "downcast" =>
        \A j \in 1..Len(df) :
            LET old == hist[1][j]
            IN  \/ df[j].dtype = old.dtype
                \/ is_integer_dtype(old) /\ df[j].dtype \in IntCatalog
                \/ is_float_dtype(old) /\ df[j].dtype \in FloatCatalog

\* A call has returned that gave an unsigned column a signed type.
C10_Witness ==
    /\ Len(hist) >= 2
    /\ \E j \in 1..Len(df) :
          hist[1][j].dtype.kind = "u" /\ hist[2][j].dtype.kind = "i"

(***************************************************************************)
(* Properties of get_downcast_type.                                        *)
(***************************************************************************)
Int100 == IntScalar(Wide(<<100>>, TRUE))
IntMinus100 == IntScalar(Wide(<<156>>, TRUE))
Int0 == IntScalar(Wide(<<0>>, TRUE))
Int1000000 == IntScalar(Wide(<<0, 15, 66, 64>>, TRUE))

\* The entries of type_map whose range holds [c_min, c_max], bounds included.
Fitting == {j \in 1..Len(type_map) : Holds(type_map[j][2], c_min, c_max)}

\* C7: get_downcast_type returns the type of the smallest size in type_map
\* whose range holds [c_min, c_max], a value equal to a bound being accepted,
\* and raises the "no suitable type" error with the range exactly when no
\* entry does; [-100, 100] gets the 1-byte and [0, 1000000] the 4-byte
\* signed integer type.
C7_SmallestFit ==
    op = "select" /\ pc # "idle" =>
        /\ IF Fitting = {}
           THEN /\ pc = "raised" /\ raised = "ValueError"
                /\ ~result.ok /\ result.range = <<c_min, c_max>>
           ELSE /\ pc = "returned" /\ raised = "none" /\ result.ok
                /\ \E j \in Fitting :
                      /\ result.dtype = type_map[j][2]
                      /\ \A l \in Fitting : type_map[j][1] <= type_map[l][1]
        /\ (type_map = map_int /\ c_min = IntMinus100 /\ c_max = Int100)
              => result.dtype = int8
        /\ (type_map = map_int /\ c_min = Int0 /\ c_max = Int1000000)
              => result.dtype = int32

\* The 1-byte type was returned for the range [-128, 127] from a catalog
\* inserted widest first.
C7_Witness ==
    /\ op = "select" /\ pc = "returned"
    /\ type_map[1][1] = 8
    /\ c_min = TypeMin(int8) /\ c_max = TypeMax(int8)
    /\ result.dtype = int8

(***************************************************************************)
(* Properties of load_data.                                                *)
(***************************************************************************)
\* Every file of the directory is well formed and has the columns of the
\* first one.
SameColumns ==
    \A j \in 1..Len(fs.entries) :
        fs.entries[j].wellformed /\ fs.entries[j].header = fs.entries[1].header

RECURSIVE AllRows(_)
AllRows(entries) ==
    IF entries = <<>> THEN <<>> ELSE entries[1].rows \o AllRows(Tail(entries))

Reads == SelectSeq(trace, LAMBDA t : t[1] = "read")

\* load_data returned the files' rows stacked in listing order, numbered
\* 0..total-1, under the first file's header, having read each file once.
Stacked ==
    /\ pc = "returned"
    /\ data.rows = AllRows(fs.entries)
    /\ data.index = [j \in 1..Len(AllRows(fs.entries)) |-> j - 1]
    /\ fs.entries # <<>> => data.columns = fs.entries[1].header
    /\ Reads = [j \in 1..Len(fs.entries) |-> <<"read", fs.entries[j].name>>]

LoadEnded == op = "load" /\ pc \in {"returned", "raised"}

\* C8 as claimed: for every existing directory of N well-formed files with
\* identical columns, load_data returns the stacked table.
C8_LoadStacks ==
    LoadEnded /\ fs.exists /\ SameColumns => Stacked

\* C8 as amended: the same for every such directory that holds at least one
\* file.
C8_LoadStacksSomeFile ==
    LoadEnded /\ fs.exists /\ SameColumns /\ Len(fs.entries) >= 1 => Stacked

\* load_data returned the table of two files that have rows.
C8_Witness ==
    /\ op = "load" /\ pc = "returned" /\ SameColumns
    /\ Len(fs.entries) >= 2
    /\ fs.entries[1].rows # <<>> /\ fs.entries[2].rows # <<>>

\* C9: load_data on a path that does not exist fails with the "path not
\* found" condition before the directory is listed or any file is read, and
\* returns no table.
C9_MissingPathFails ==
    op = "load" /\ ~fs.exists /\ pc # "idle" =>
        /\ pc = "raised"
        /\ raised = "AssertionError: Data path not found"
        /\ \A j \in 1..Len(trace) : trace[j][1] \notin {"listdir", "read"}
        /\ data = NoTable

\* load_data was called on a missing path and the call has ended.
C9_Witness ==
    op = "load" /\ ~fs.exists /\ pc = "raised" /\ trace # <<>>
====
